---- MODULE Spec2Model ----
(***************************************************************************)
(* Human-in-the-loop interaction protocol of the web UI.                   *)
(*                                                                         *)
(* A browser tab runs one of the two clients of the repository:            *)
(*   - the modal handler, class UserInteractionHandler                     *)
(*     (src/src/static/js/user_interaction.js);                            *)
(*   - the standalone page (src/src/static/interaction_modal.html).        *)
(* The store (the server behind /api/interaction/...) is not part of the   *)
(* sources; it is modelled from sections 4.1 and 6 of the specification.   *)
(* Clients interact through the store only, so the other tabs polling the  *)
(* same store appear as the steps ResolveElsewhere and CancelElsewhere.    *)
(*                                                                         *)
(* Every await / .then of the sources is a separate step: a fetch puts a   *)
(* message in flight, the store answers it, and the continuation of the    *)
(* client runs when the answer is delivered, in any order the network      *)
(* allows.                                                                 *)
(***************************************************************************)
EXTENDS Integers, Sequences, FiniteSets, Bags, TLC

\* ------------------------------------------------------------------ bounds
MaxReq    == 2  \* requests the agent side creates
MaxPolls  == 2  \* GET /pending responses in flight
MaxCalls  == 2  \* POST response/cancel calls in flight
MaxTimers == 1  \* pending "clear the form" timeouts of the standalone page
MaxInitCalls == 3  \* calls of init() by the listener, the delayed call, the host

NoRequest == 0  \* null / no request bound

\* ------------------------------------------------------------------ values
\* A response value as JSON carries it: a string (a sequence of characters),
\* a boolean, or null.
Str(s)  == [t |-> "str",  s |-> s,    b |-> FALSE]
Bool(b) == [t |-> "bool", s |-> << >>, b |-> b]
Null    == [t |-> "null", s |-> << >>, b |-> FALSE]

Quote == "\""
Completed    == <<"c","o","m","p","l","e","t","e","d">>
Acknowledged == <<"a","c","k","n","o","w","l","e","d","g","e","d">>

Backslash == "\\"

\* What the user can type into the text field.
Texts == { << >>, <<"h","i">> }
\* A text with leading and trailing blanks and the characters JSON escapes.
RoundTripTexts == { <<" ", Quote, Backslash, " ">> }
\* The option lists an agent may attach to a selection request.
OptionLists == { << >>, << <<"A">>, <<"B", Quote, "x">> >> }

Types == {"text_input", "login", "confirmation", "selection", "custom"}
\* The types of the requests the agent creates in protocol runs.
AgentTypes == {"text_input"}

VARIABLES
    client,               \* which client this tab runs: "modal" or "page"
    requests,             \* store: request_id -> record, in creation order
    polls,                \* bag of GET /pending responses in flight
    calls,                \* bag of POST calls in flight
    pendingInteractions,  \* modal: the keys of this.pendingInteractions
    modalShown,           \* modal: the Bootstrap modal is shown
    modalContent,         \* modal: requests rendered in the modal body
    onclickReq,           \* modal: request the Submit/Cancel onclick hold
    form,                 \* modal: state of the rendered input elements
    hasStatusEl,          \* modal: the host page has #interaction-status
    unhandled,            \* modal: an async handler rejected unhandled
    currentRequest,       \* page: currentRequest (NoRequest for null)
    pageContent,          \* page: requests rendered in #interaction-prompt
    clearTimers,          \* page: pending setTimeout(clear form, 2000)
    status,               \* kind of the status message the client shows
    initialized,          \* modal: this.initialized
    checkInterval,        \* modal: this.checkInterval: "null", "live", "cleared"
    modalElement,         \* modal: #user-interaction-modal is in the document
    bootstrapReady,       \* modal: typeof bootstrap !== 'undefined'
    scriptsLoading,       \* modal: inserted Bootstrap scripts not yet loaded
    initCalls,            \* history: calls of init() so far
    intervalsCreated,     \* history: setInterval calls of the client so far
    intervalsLive,        \* interval timers of the client that still fire
    tornDown,             \* beforeunload has fired in the tab
    retired,              \* history: ids this client resolved with success
    shownEver             \* history: ids this client has displayed so far

vars == << client, requests, polls, calls, pendingInteractions, modalShown,
           modalContent, onclickReq, form, hasStatusEl, unhandled,
           currentRequest, pageContent, clearTimers, status, initialized,
           checkInterval, modalElement, bootstrapReady, scriptsLoading,
           initCalls, intervalsCreated, intervalsLive, tornDown, retired,
           shownEver >>

handlerVars == << pendingInteractions, modalShown, modalContent, onclickReq,
                  form, unhandled >>
pageVars    == << currentRequest, pageContent, clearTimers >>
\* Start-up and teardown of the client.
lifeVars    == << initialized, checkInterval, modalElement, bootstrapReady,
                  scriptsLoading, initCalls, intervalsCreated,
                  intervalsLive, tornDown >>
\* What the polling and interaction steps never change.
tabVars     == << client, hasStatusEl, lifeVars >>

\* ----------------------------------------------------------------- helpers
One(x) == SetToBag({x})

IsPending(r) == r \in 1..Len(requests) /\ requests[r].status = "pending"

\* ------------------------------------------------------------------- store
\* The request store as sections 4.1 and 6 of the specification describe it.
NewRequest(t, o) == [type |-> t, options |-> o, status |-> "pending",
                     value |-> Null]

\* Mutant: list_pending returns every request of the store.
ListPendingAll == [r \in 1..Len(requests) |-> r]

\* list_pending / GET /api/interaction/pending: the pending ids, in creation
\* order.  A response carries the records too; type and options never change
\* in the store, so a client reading them from its copy reads requests[r].
ListPending ==
    LET IsP(r) == requests[r].status = "pending"
    IN  SelectSeq([r \in 1..Len(requests) |-> r], IsP)

\* Mutant: resolve stores the value whatever the status of the request.
ResolveOverwrites(r, v) ==
    IF r \in 1..Len(requests)
    THEN [requests EXCEPT ![r].status = "answered", ![r].value = v]
    ELSE requests

\* resolve(request_id, value) / POST /api/interaction/response
ResolveResult(r) == IF IsPending(r) THEN "ok" ELSE "NotFound"
Resolve(r, v) ==
    IF IsPending(r)
    THEN [requests EXCEPT ![r].status = "answered", ![r].value = v]
    ELSE requests

\* cancel(request_id) / POST /api/interaction/cancel
CancelRequest(r) ==
    IF IsPending(r)
    THEN [requests EXCEPT ![r].status = "cancelled"]
    ELSE requests

\* create(kind, prompt, description, options), called by the agent side.
Create(t, o) ==
    /\ Len(requests) < MaxReq
    /\ requests' = Append(requests, NewRequest(t, o))
    /\ UNCHANGED << tabVars, polls, calls, handlerVars, pageVars, status,
                    retired, shownEver >>

\* Another tab displaying r submits a value for it.
ResolveElsewhere(r, v) ==
    /\ IsPending(r)
    /\ requests' = Resolve(r, v)
    /\ UNCHANGED << tabVars, polls, calls, handlerVars, pageVars, status,
                    retired, shownEver >>

\* Another tab displaying r cancels it.
CancelElsewhere(r) ==
    /\ IsPending(r)
    /\ requests' = CancelRequest(r)
    /\ UNCHANGED << tabVars, polls, calls, handlerVars, pageVars, status,
                    retired, shownEver >>

\* --------------------------------------------------------------- transport
\* The characters of a string as JSON.stringify writes them between quotes.
RECURSIVE EscapeJson(_)
EscapeJson(s) ==
    IF s = << >> THEN << >>
    ELSE (IF Head(s) \in {Quote, Backslash} THEN <<Backslash, Head(s)>>
          ELSE <<Head(s)>>) \o EscapeJson(Tail(s))

\* Mutant: the string is written between quotes as it is.
JsonStringifyUnescaped(v) ==
    CASE v.t = "str"  -> <<Quote>> \o v.s \o <<Quote>>
      [] v.t = "bool" -> IF v.b THEN <<"t","r","u","e">>
                         ELSE <<"f","a","l","s","e">>
      [] OTHER        -> <<"n","u","l","l">>

\* JSON.stringify of the response field of the POST body.
JsonStringify(v) ==
    CASE v.t = "str"  -> <<Quote>> \o EscapeJson(v.s) \o <<Quote>>
      [] v.t = "bool" -> IF v.b THEN <<"t","r","u","e">>
                         ELSE <<"f","a","l","s","e">>
      [] OTHER        -> <<"n","u","l","l">>

\* The server reading the response field of the JSON body.
RECURSIVE UnescapeJson(_)
UnescapeJson(s) ==
    IF s = << >> THEN << >>
    ELSE IF Head(s) = Backslash
         THEN (IF Len(s) = 1 THEN << >>
               ELSE <<s[2]>> \o UnescapeJson(Tail(Tail(s))))
         ELSE <<Head(s)>> \o UnescapeJson(Tail(s))

JsonParse(j) ==
    IF j # << >> /\ Head(j) = Quote
    THEN Str(UnescapeJson(SubSeq(j, 2, Len(j) - 1)))
    ELSE IF j = <<"t","r","u","e">> THEN Bool(TRUE)
    ELSE IF j = <<"f","a","l","s","e">> THEN Bool(FALSE)
    ELSE Null

\* A POST in flight: value is what the client extracted, body the response
\* field as it travels (a cancel carries none).
NewCall(r, v, c) == [id |-> r, value |-> v, cancelled |-> c,
                     body |-> IF c THEN << >> ELSE JsonStringify(v),
                     stage |-> "sent", result |-> "none"]

\* The interval timer calls checkPendingInteractions, which does
\* fetch('/api/interaction/pending'): the server reads the store and the
\* response travels back to the client.
PollFetch ==
    /\ intervalsLive > 0
    /\ BagCardinality(polls) < MaxPolls
    /\ polls' = polls (+) One(ListPending)
    /\ UNCHANGED << tabVars, requests, calls, handlerVars, pageVars, status,
                    retired, shownEver >>

\* The server handles a POST that reached it.
StoreHandle(call) ==
    /\ BagIn(call, calls)
    /\ call.stage = "sent"
    /\ requests' = IF call.cancelled THEN CancelRequest(call.id)
                   ELSE Resolve(call.id, JsonParse(call.body))
    /\ calls' = (calls (-) One(call)) (+)
                One([call EXCEPT !.stage = "replied",
                                 !.result = ResolveResult(call.id)])
    /\ UNCHANGED << tabVars, polls, handlerVars, pageVars, status, retired,
                    shownEver >>

\* ------------------------------------------------- modal handler (class)
InitialForm == [text |-> << >>, checked |-> FALSE, selected |-> 0]

\* Mutant: the new request is rendered next to what was there.
RenderedAfterShowAppend(old, r) == old \cup {r}

\* What is rendered once a request is shown: promptEl.textContent = ... and
\* contentEl.innerHTML = '' replace what was rendered before.
RenderedAfterShow(old, r) == {r}

\* The value attribute of a radio written as value="${option}" into
\* innerHTML and parsed back: the attribute ends at the first double quote.
RECURSIVE AttrValue(_)
AttrValue(o) ==
    IF o = << >> \/ Head(o) = Quote THEN << >>
    ELSE <<Head(o)>> \o AttrValue(Tail(o))

\* The switch of submitResponse: the response value for a request of type t
\* with options o, read from the rendered inputs f.
ExtractValue(t, o, f) ==
    CASE t = "text_input"   -> Str(f.text)
      [] t = "login"        -> Str(Completed)
      [] t = "confirmation" -> Bool(f.checked)
      [] t = "selection"    -> IF f.selected = 0 THEN Null
                               ELSE Str(AttrValue(o[f.selected]))
      [] OTHER              -> Str(Acknowledged)

\* Positions of the ids of a poll response that are not keys of
\* this.pendingInteractions.
Unseen(s, seen) == {k \in 1..Len(s) : s[k] \notin seen}
\* Mutant: the loop has no break, the last unseen id is the one shown.
LastUnseen(s, seen) ==
    s[CHOOSE k \in Unseen(s, seen) : \A j \in Unseen(s, seen) : k >= j]

FirstUnseen(s, seen) ==
    s[CHOOSE k \in Unseen(s, seen) : \A j \in Unseen(s, seen) : k <= j]

\* The ids the loop of checkPendingInteractions shows: the first id of the
\* response that is not a key of this.pendingInteractions, then break.
ToShow(s, seen) ==
    IF Unseen(s, seen) = {} THEN {} ELSE {FirstUnseen(s, seen)}

\* checkPendingInteractions after its awaits, with showInteraction inlined.
PollDeliverH(s) ==
    /\ client = "modal"
    /\ BagIn(s, polls)
    /\ polls' = polls (-) One(s)
    /\ LET show == ToShow(s, pendingInteractions)
       IN  IF show = {}
           THEN UNCHANGED << handlerVars, shownEver >>
           ELSE LET r == CHOOSE x \in show : TRUE
                IN  /\ pendingInteractions' = pendingInteractions \cup {r}
                    /\ modalContent' = RenderedAfterShow(modalContent, r)
                    /\ form' = InitialForm
                    /\ onclickReq' = r
                    /\ modalShown' = TRUE
                    /\ shownEver' = shownEver \cup {r}
                    /\ UNCHANGED unhandled
    /\ UNCHANGED << tabVars, requests, calls, pageVars, status, retired >>

\* Mutant: the catch gives up the request on display and cancels it.
PollFailHCancels(s) ==
    /\ client = "modal"
    /\ BagIn(s, polls)
    /\ polls' = polls (-) One(s)
    /\ IF modalShown /\ onclickReq # NoRequest
          /\ BagCardinality(calls) < MaxCalls
       THEN calls' = calls (+) One([id |-> onclickReq, value |-> Null,
                                    cancelled |-> TRUE, body |-> << >>,
                                    stage |-> "sent", result |-> "none"])
       ELSE calls' = calls
    /\ UNCHANGED << tabVars, requests, handlerVars, pageVars, status,
                    retired, shownEver >>

\* The fetch or response.json() of checkPendingInteractions rejects: the
\* catch logs to the console.
PollFailH(s) ==
    /\ client = "modal"
    /\ BagIn(s, polls)
    /\ polls' = polls (-) One(s)
    /\ UNCHANGED << tabVars, requests, calls, handlerVars, pageVars, status,
                    retired, shownEver >>

\* The user types into #interaction-input.
EditText(t) ==
    /\ client = "modal"
    /\ modalShown /\ onclickReq # NoRequest
    /\ requests[onclickReq].type = "text_input"
    /\ form.text # t
    /\ form' = [form EXCEPT !.text = t]
    /\ UNCHANGED << tabVars, requests, polls, calls, pendingInteractions,
                    modalShown, modalContent, onclickReq, unhandled,
                    pageVars, status, retired, shownEver >>

\* The user toggles #confirm-check.
ToggleCheck ==
    /\ client = "modal"
    /\ modalShown /\ onclickReq # NoRequest
    /\ requests[onclickReq].type = "confirmation"
    /\ form' = [form EXCEPT !.checked = ~@]
    /\ UNCHANGED << tabVars, requests, polls, calls, pendingInteractions,
                    modalShown, modalContent, onclickReq, unhandled,
                    pageVars, status, retired, shownEver >>

\* The user picks the k-th radio of name "selection".
SelectOption(k) ==
    /\ client = "modal"
    /\ modalShown /\ onclickReq # NoRequest
    /\ requests[onclickReq].type = "selection"
    /\ k \in DOMAIN requests[onclickReq].options
    /\ form.selected # k
    /\ form' = [form EXCEPT !.selected = k]
    /\ UNCHANGED << tabVars, requests, polls, calls, pendingInteractions,
                    modalShown, modalContent, onclickReq, unhandled,
                    pageVars, status, retired, shownEver >>

\* A click on #submit-interaction (or Enter in the modal): submitResponse up
\* to its await.  Without #interaction-status the first statement of the try
\* throws, and so does the catch: no fetch, an unhandled rejection.
SubmitClickH ==
    /\ client = "modal"
    /\ modalShown /\ onclickReq # NoRequest
    /\ IF hasStatusEl
       THEN /\ BagCardinality(calls) < MaxCalls
            /\ status' = "info"
            /\ calls' = calls (+) One(
                   NewCall(onclickReq,
                           ExtractValue(requests[onclickReq].type,
                                        requests[onclickReq].options, form),
                           FALSE))
            /\ UNCHANGED unhandled
       ELSE /\ unhandled' = TRUE
            /\ UNCHANGED << status, calls >>
    /\ UNCHANGED << tabVars, requests, polls, pendingInteractions,
                    modalShown, modalContent, onclickReq, form, pageVars,
                    retired, shownEver >>

\* A click on #cancel-interaction: cancelInteraction up to its await; the
\* button carries data-bs-dismiss="modal", so the click hides the modal too.
CancelClickH ==
    /\ client = "modal"
    /\ modalShown /\ onclickReq # NoRequest
    /\ BagCardinality(calls) < MaxCalls
    /\ calls' = calls (+) One(NewCall(onclickReq, Null, TRUE))
    /\ modalShown' = FALSE
    /\ UNCHANGED << tabVars, requests, polls, pendingInteractions,
                    modalContent, onclickReq, form, unhandled, pageVars,
                    status, retired, shownEver >>

\* A click on the header's btn-close (data-bs-dismiss="modal").
DismissH ==
    /\ client = "modal"
    /\ modalShown
    /\ modalShown' = FALSE
    /\ UNCHANGED << tabVars, requests, polls, calls, pendingInteractions,
                    modalContent, onclickReq, form, unhandled, pageVars,
                    status, retired, shownEver >>

\* Mutant: the continuation hides the modal but keeps the local entry.
CallReturnHKeepsEntry(call) ==
    /\ client = "modal"
    /\ BagIn(call, calls)
    /\ call.stage = "replied"
    /\ modalShown' = FALSE
    /\ status' = IF call.cancelled THEN status ELSE "success"
    /\ retired' = IF call.result = "ok" THEN retired \cup {call.id}
                  ELSE retired
    /\ calls' = calls (-) One(call)
    /\ UNCHANGED << tabVars, requests, polls, pendingInteractions,
                    modalContent, onclickReq, form, unhandled, pageVars,
                    shownEver >>

\* The await fetch of submitResponse / cancelInteraction resolves (whatever
\* the HTTP status: the response is not read): the rest of the try block.
CallReturnH(call) ==
    /\ client = "modal"
    /\ BagIn(call, calls)
    /\ call.stage = "replied"
    /\ pendingInteractions' = pendingInteractions \ {call.id}
    /\ modalShown' = FALSE
    /\ status' = IF call.cancelled THEN status ELSE "success"
    /\ retired' = IF call.result = "ok" THEN retired \cup {call.id}
                  ELSE retired
    /\ calls' = calls (-) One(call)
    /\ UNCHANGED << tabVars, requests, polls, modalContent, onclickReq, form,
                    unhandled, pageVars, shownEver >>

\* Mutant: the catch cleans up as the success path does.
CallFailHCleansUp(call) ==
    /\ client = "modal"
    /\ BagIn(call, calls)
    /\ call.stage = "sent"
    /\ status' = IF call.cancelled THEN status ELSE "error"
    /\ pendingInteractions' = pendingInteractions \ {call.id}
    /\ modalShown' = FALSE
    /\ calls' = calls (-) One(call)
    /\ UNCHANGED << tabVars, requests, polls, modalContent, onclickReq, form,
                    unhandled, pageVars, retired, shownEver >>

\* The await fetch rejects (the request never reached the server): the catch
\* of submitResponse writes the error into #interaction-status, the catch of
\* cancelInteraction logs to the console.
CallFailH(call) ==
    /\ client = "modal"
    /\ BagIn(call, calls)
    /\ call.stage = "sent"
    /\ status' = IF call.cancelled THEN status ELSE "error"
    /\ calls' = calls (-) One(call)
    /\ UNCHANGED << tabVars, requests, polls, handlerVars, pageVars, retired,
                    shownEver >>

\* ---------------------------------------------------------- standalone page
\* The .then chain of checkPendingInteractions, with displayRequest inlined.
PollDeliverP(s) ==
    /\ client = "page"
    /\ BagIn(s, polls)
    /\ polls' = polls (-) One(s)
    /\ IF Len(s) > 0 /\ currentRequest = NoRequest
       THEN /\ currentRequest' = s[1]
            /\ pageContent' = RenderedAfterShow(pageContent, s[1])
            /\ shownEver' = shownEver \cup {s[1]}
            /\ UNCHANGED clearTimers
       ELSE UNCHANGED << pageVars, shownEver >>
    /\ UNCHANGED << tabVars, requests, calls, handlerVars, status, retired >>

\* Mutant: the .catch gives up the request on display.
PollFailPResets(s) ==
    /\ client = "page"
    /\ BagIn(s, polls)
    /\ polls' = polls (-) One(s)
    /\ status' = "pollerror"
    /\ currentRequest' = NoRequest
    /\ UNCHANGED << tabVars, requests, calls, handlerVars, pageContent,
                    clearTimers, retired, shownEver >>

\* The .catch of checkPendingInteractions: "Error checking for interactions.
\* Please refresh the page."
PollFailP(s) ==
    /\ client = "page"
    /\ BagIn(s, polls)
    /\ polls' = polls (-) One(s)
    /\ status' = "pollerror"
    /\ UNCHANGED << tabVars, requests, calls, handlerVars, pageVars, retired,
                    shownEver >>

\* A click on #complete-button: submitResponse up to the fetch.
SubmitClickP ==
    /\ client = "page"
    /\ currentRequest # NoRequest
    /\ BagCardinality(calls) < MaxCalls
    /\ status' = "info"
    /\ calls' = calls (+) One(NewCall(currentRequest, Str(Completed), FALSE))
    /\ UNCHANGED << tabVars, requests, polls, handlerVars, pageVars, retired,
                    shownEver >>

\* A click on #cancel-button: cancelRequest up to the fetch.
CancelClickP ==
    /\ client = "page"
    /\ currentRequest # NoRequest
    /\ BagCardinality(calls) < MaxCalls
    /\ calls' = calls (+) One(NewCall(currentRequest, Null, TRUE))
    /\ UNCHANGED << tabVars, requests, polls, handlerVars, pageVars, status,
                    retired, shownEver >>

\* The first .then of submitResponse / cancelRequest (the response is not
\* read); it schedules the timeout that clears the form.
CallReturnP(call) ==
    /\ client = "page"
    /\ BagIn(call, calls)
    /\ call.stage = "replied"
    /\ clearTimers < MaxTimers
    /\ status' = IF call.cancelled THEN "info" ELSE "success"
    /\ currentRequest' = NoRequest
    /\ clearTimers' = clearTimers + 1
    /\ retired' = IF call.result = "ok" THEN retired \cup {call.id}
                  ELSE retired
    /\ calls' = calls (-) One(call)
    /\ UNCHANGED << tabVars, requests, polls, handlerVars, pageContent,
                    shownEver >>

\* The .catch of submitResponse / cancelRequest.
CallFailP(call) ==
    /\ client = "page"
    /\ BagIn(call, calls)
    /\ call.stage = "sent"
    /\ status' = "error"
    /\ calls' = calls (-) One(call)
    /\ UNCHANGED << tabVars, requests, polls, handlerVars, pageVars, retired,
                    shownEver >>

\* The setTimeout callback of submitResponse / cancelRequest: the prompt is
\* overwritten with "Waiting for agent requests...".
ClearTimerP ==
    /\ client = "page"
    /\ clearTimers > 0
    /\ clearTimers' = clearTimers - 1
    /\ pageContent' = {}
    /\ UNCHANGED << tabVars, requests, polls, calls, handlerVars,
                    currentRequest, status, retired, shownEver >>

\* ------------------------------------------------------------ specification
\* The tab after its script has run, before the first poll.  The standalone
\* page has no element #interaction-status; the page hosting the modal
\* handler may or may not have one (the modal markup the handler creates has
\* none).
InitTab ==
    /\ client \in {"modal", "page"}
    /\ hasStatusEl \in (IF client = "modal" THEN BOOLEAN ELSE {FALSE})
    /\ polls = EmptyBag
    /\ calls = EmptyBag
    /\ pendingInteractions = {}
    /\ modalShown = FALSE
    /\ modalContent = {}
    /\ onclickReq = NoRequest
    /\ form = InitialForm
    /\ unhandled = FALSE
    /\ currentRequest = NoRequest
    /\ pageContent = {}
    /\ clearTimers = 0
    /\ status = "none"
    /\ retired = {}
    /\ shownEver = {}

\* The client once it polls: init() has run once with Bootstrap present and
\* has started the interval; the page's script has called setInterval.
Started ==
    /\ initialized = (client = "modal")
    /\ checkInterval = (IF client = "modal" THEN "live" ELSE "null")
    /\ modalElement = (client = "modal")
    /\ bootstrapReady = (client = "modal")
    /\ scriptsLoading = 0
    /\ initCalls = (IF client = "modal" THEN 1 ELSE 0)
    /\ intervalsCreated = 1
    /\ intervalsLive = 1
    /\ tornDown = FALSE

InitClient == InitTab /\ Started

Init == requests = << >> /\ InitClient

OptionsFor(t) == IF t = "selection" THEN OptionLists ELSE { << >> }

\* The values another tab may deliver.
OtherTabValues == {Str(Completed)} \cup {Str(t) : t \in Texts}

AgentStep == \E t \in AgentTypes : \E o \in OptionsFor(t) : Create(t, o)

ElsewhereStep ==
    \E r \in 1..MaxReq :
        \/ \E v \in OtherTabValues : ResolveElsewhere(r, v)
        \/ CancelElsewhere(r)

StoreStep == \E call \in BagToSet(calls) : StoreHandle(call)

HandlerStep ==
    \/ client = "modal" /\ PollFetch
    \/ \E s \in BagToSet(polls) : PollDeliverH(s)
    \/ \E s \in BagToSet(polls) : PollFailH(s)
    \/ \E t \in Texts : EditText(t)
    \/ SubmitClickH
    \/ CancelClickH
    \/ DismissH
    \/ \E call \in BagToSet(calls) : CallReturnH(call)
    \/ \E call \in BagToSet(calls) : CallFailH(call)

PageStep ==
    \/ client = "page" /\ PollFetch
    \/ \E s \in BagToSet(polls) : PollDeliverP(s)
    \/ \E s \in BagToSet(polls) : PollFailP(s)
    \/ SubmitClickP
    \/ CancelClickP
    \/ \E call \in BagToSet(calls) : CallReturnP(call)
    \/ \E call \in BagToSet(calls) : CallFailP(call)
    \/ ClearTimerP

Next == AgentStep \/ ElsewhereStep \/ StoreStep \/ HandlerStep \/ PageStep

Spec == Init /\ [][Next]_vars

\* One request of any type is pending when the tab loads; the user then works
\* on its form.  Used for the claims about the response value of each type.
InitKinds ==
    /\ \E t \in Types : \E o \in OptionsFor(t) :
           requests = << NewRequest(t, o) >>
    /\ InitClient

FormStep ==
    \/ ToggleCheck
    \/ \E k \in 1..2 : SelectOption(k)
    \/ \E t \in RoundTripTexts : EditText(t)

NextKinds == ElsewhereStep \/ StoreStep \/ HandlerStep \/ FormStep \/ PageStep

SpecKinds == InitKinds /\ [][NextKinds]_vars

\* As InitKinds, with a second request pending behind the first, so that the
\* client can display either when the user acts, on a host page where the
\* submit is sent.
InitRound ==
    /\ \E t \in Types : \E o \in OptionsFor(t) :
           requests = << NewRequest(t, o), NewRequest("text_input", << >>) >>
    /\ InitClient
    /\ client = "modal" => hasStatusEl

\* No other tab acts on the two requests.
NextRound == StoreStep \/ HandlerStep \/ FormStep \/ PageStep

SpecRound == InitRound /\ [][NextRound]_vars

\* ------------------------------------------------------ start and teardown
\* What start-up and teardown leave alone.
protocolVars == << client, hasStatusEl, requests, polls, calls, handlerVars,
                   pageVars, status, retired, shownEver >>

\* Mutant: init() without the test of this.initialized.
InitBodyUnguarded(ready, loading) ==
    /\ modalElement' = TRUE
    /\ IF ~ready
       THEN /\ scriptsLoading' = loading + 1
            /\ UNCHANGED << initialized, checkInterval, intervalsCreated,
                            intervalsLive >>
       ELSE /\ checkInterval' = "live"
            /\ intervalsCreated' = intervalsCreated + 1
            /\ intervalsLive' = intervalsLive + 1
            /\ initialized' = TRUE
            /\ scriptsLoading' = loading

\* The body of init(), run when typeof bootstrap !== 'undefined' is ready
\* and loading scripts inserted by loadBootstrap are still to arrive.
InitBody(ready, loading) ==
    IF initialized
    THEN /\ scriptsLoading' = loading
         /\ UNCHANGED << initialized, checkInterval, modalElement,
                         intervalsCreated, intervalsLive >>
    ELSE /\ modalElement' = TRUE
         /\ IF ~ready
            THEN /\ scriptsLoading' = loading + 1
                 /\ UNCHANGED << initialized, checkInterval, intervalsCreated,
                                 intervalsLive >>
            ELSE /\ checkInterval' = "live"
                 /\ intervalsCreated' = intervalsCreated + 1
                 /\ intervalsLive' = intervalsLive + 1
                 /\ initialized' = TRUE
                 /\ scriptsLoading' = loading

\* init() called by the DOMContentLoaded listener, by the delayed call of the
\* already-loaded branch, or by the host page.
InitCall ==
    /\ client = "modal"
    /\ initCalls < MaxInitCalls
    /\ initCalls' = initCalls + 1
    /\ InitBody(bootstrapReady, scriptsLoading)
    /\ UNCHANGED << bootstrapReady, tornDown, protocolVars >>

\* script.onload of loadBootstrap: Bootstrap is defined now, init() runs.
ScriptLoaded ==
    /\ client = "modal"
    /\ scriptsLoading > 0
    /\ bootstrapReady' = TRUE
    /\ initCalls' = initCalls + 1
    /\ InitBody(TRUE, scriptsLoading - 1)
    /\ UNCHANGED << tornDown, protocolVars >>

\* The inserted script fails to load: no onload.
ScriptFails ==
    /\ client = "modal"
    /\ scriptsLoading > 0
    /\ scriptsLoading' = scriptsLoading - 1
    /\ UNCHANGED << initialized, checkInterval, modalElement, bootstrapReady,
                    initCalls, intervalsCreated, intervalsLive, tornDown,
                    protocolVars >>

\* A script tag of the host page defines bootstrap.
BootstrapLoads ==
    /\ client = "modal"
    /\ ~bootstrapReady
    /\ bootstrapReady' = TRUE
    /\ UNCHANGED << initialized, checkInterval, modalElement, scriptsLoading,
                    initCalls, intervalsCreated, intervalsLive, tornDown,
                    protocolVars >>

\* beforeunload fires.  The handler's listener runs cleanup(), which clears
\* the interval whose handle this.checkInterval holds; the standalone page
\* registers no listener.
BeforeUnload ==
    /\ tornDown' = TRUE
    /\ IF client = "modal" /\ checkInterval = "live"
       THEN /\ checkInterval' = "cleared"
            /\ intervalsLive' = intervalsLive - 1
       ELSE UNCHANGED << checkInterval, intervalsLive >>
    /\ UNCHANGED << initialized, modalElement, bootstrapReady, scriptsLoading,
                    initCalls, intervalsCreated, protocolVars >>

\* The tab when the client's script has just run: the handler is constructed
\* and its init() calls are to come; the page has called setInterval.
Loading ==
    IF client = "page" THEN Started
    ELSE /\ initialized = FALSE
         /\ checkInterval = "null"
         /\ modalElement \in BOOLEAN
         /\ bootstrapReady \in BOOLEAN
         /\ scriptsLoading = 0
         /\ initCalls = 0
         /\ intervalsCreated = 0
         /\ intervalsLive = 0
         /\ tornDown = FALSE

InitLoad == requests = << >> /\ InitTab /\ Loading

LoadStep ==
    \/ InitCall
    \/ ScriptLoaded
    \/ ScriptFails
    \/ BootstrapLoads
    \/ BeforeUnload

PollStep ==
    \/ PollFetch
    \/ \E s \in BagToSet(polls) : PollDeliverH(s)
    \/ \E s \in BagToSet(polls) : PollDeliverP(s)

NextLoad == AgentStep \/ LoadStep \/ PollStep

SpecLoad == InitLoad /\ [][NextLoad]_vars

\* ------------------------------------------------------- derived predicates
\* The requests rendered by the client and awaiting a user action.
Displaying ==
    IF client = "modal"
    THEN (IF modalShown THEN modalContent ELSE {})
    ELSE (IF currentRequest # NoRequest THEN pageContent ELSE {})

\* The request the submit and cancel controls act on.
Bound == IF client = "modal" THEN onclickReq ELSE currentRequest

\* The client's local bookkeeping of requests.
Known == IF client = "modal" THEN pendingInteractions
         ELSE (IF currentRequest = NoRequest THEN {} ELSE {currentRequest})

\* The user can trigger a submit of r that is sent to the store.
CanSubmit(r) ==
    IF client = "modal"
    THEN modalShown /\ onclickReq = r /\ hasStatusEl
    ELSE currentRequest = r

PendingIds == {r \in 1..Len(requests) : IsPending(r)}

CallsFor(r) == {call \in BagToSet(calls) : call.id = r}

SubmitClick == SubmitClickH \/ SubmitClickP
CancelClick == CancelClickH \/ CancelClickP
CallFail(call) == CallFailH(call) \/ CallFailP(call)
CallReturn(call) == CallReturnH(call) \/ CallReturnP(call)

\* ------------------------------------------------------------------ claims

\* C1: in every reachable state the client has at most one request in the
\* Displaying state (rendered and awaiting a user action), however many
\* requests are pending in the store.
C1_AtMostOneDisplayed == Cardinality(Displaying) <= 1

\* C1 witness: the client has shown two requests, both still pending in the
\* store, and exactly one is displayed.
C1_Witness ==
    /\ Cardinality(shownEver) = 2
    /\ shownEver \subseteq PendingIds
    /\ Cardinality(Displaying) = 1

\* C2: while the client displays a pending request r that it has not
\* submitted or cancelled, no step of a poll cycle changes the displayed
\* request or rebinds the submit/cancel controls.
C2_PollNeverPreempts ==
    [][ ( /\ polls' # polls
          /\ Displaying # {}
          /\ \A r \in Displaying : IsPending(r) /\ CallsFor(r) = {} )
        => (Displaying' = Displaying /\ Bound' = Bound) ]_vars

\* C3: a request the client has retired with a successful submit or cancel
\* (its local entry deleted) is never displayed by that client again.
C3_RetiredNeverRedisplayed == \A r \in retired : r \notin Displaying

\* C4: a submit that finds its request already resolved by another client
\* gets NotFound, leaves the stored status and value alone, raises no
\* unhandled error, and the client presents an outcome other than the normal
\* success.
C4_LateSubmitNotSuccess ==
    [][ \A call \in BagToSet(calls) :
          /\ (StoreHandle(call) /\ ~IsPending(call.id)) =>
                 /\ requests' = requests
                 /\ BagIn([call EXCEPT !.stage = "replied",
                                       !.result = "NotFound"], calls')
          /\ (CallReturn(call) /\ ~call.cancelled
                /\ call.result = "NotFound") =>
                 (status' # "success" /\ unhandled' = unhandled) ]_vars

\* The value section 4.3 of the specification gives for a request of type t
\* with options o and the inputs in state f.
TableValue(t, o, f) ==
    CASE t = "text_input"   -> Str(f.text)
      [] t = "login"        -> Str(Completed)
      [] t = "confirmation" -> Bool(f.checked)
      [] t = "selection"    -> IF f.selected = 0 THEN Null
                               ELSE Str(o[f.selected])
      [] OTHER              -> Str(Acknowledged)

\* The inputs the user sees: the standalone page renders none, so each is at
\* its default.
FormState == IF client = "modal" THEN form ELSE InitialForm

\* C5: the value sent by a submit is the one of the kind-dispatch table, for
\* every request type and every state of the form.
C5_SubmitValueIsTableValue ==
    [][ \A call \in BagToSet(calls') :
          (SubmitClick /\ calls' = calls (+) One(call)) =>
              call.value = TableValue(requests[call.id].type,
                                      requests[call.id].options,
                                      FormState) ]_vars

\* What a failed call must leave as it was.
ClientStateKept ==
    /\ Displaying' = Displaying
    /\ Bound' = Bound
    /\ Known' = Known
    /\ form' = form
    /\ requests' = requests

\* C6: a submit keeps its request displayed while it is in flight, and a
\* transport failure of the submit changes neither the display, the form,
\* the local bookkeeping nor the store; it shows an error status and issues
\* no further call, so a request that was displayed and pending is still
\* displayed, still pending and can be submitted again by the user.
C6_SubmitFailureKeepsRequest ==
    [][ /\ SubmitClick => (Displaying' = Displaying /\ Bound' = Bound)
        /\ \A call \in BagToSet(calls) :
             (CallFail(call) /\ ~call.cancelled) =>
                 /\ ClientStateKept
                 /\ status' = "error"
                 /\ calls' = calls (-) One(call)
                 /\ (call.id \in Displaying /\ Bound = call.id
                       /\ IsPending(call.id)) =>
                        (call.id \in Displaying' /\ IsPending(call.id)'
                           /\ CanSubmit(call.id)') ]_vars

\* C6 witness: after a failed submit the modal still shows the pending
\* request with the error status, nothing is in flight, and the user can
\* submit again.
C6_Witness ==
    /\ client = "modal"
    /\ status = "error"
    /\ calls = EmptyBag
    /\ onclickReq \in Displaying
    /\ IsPending(onclickReq)
    /\ CanSubmit(onclickReq)

\* C7: a cancel keeps its request displayed while it is in flight, and a
\* transport failure of the cancel changes neither the display, the local
\* bookkeeping nor the store and shows an error status, so the request is
\* not left hidden while still pending and known to the client.
C7_CancelFailureKeepsRequest ==
    [][ /\ CancelClick => (Displaying' = Displaying /\ Bound' = Bound)
        /\ \A call \in BagToSet(calls) :
             (CallFail(call) /\ call.cancelled) =>
                 /\ ClientStateKept
                 /\ status' = "error"
                 /\ calls' = calls (-) One(call) ]_vars

\* C9: the client displays requests for the first time in creation order: a
\* request is never shown for the first time after a younger one was shown.
C9_FirstDisplayInCreationOrder ==
    [][ \A r \in shownEver' \ shownEver : \A q \in shownEver : q < r ]_vars

\* C10: the client never has two submit/cancel calls in flight.
C10_OneCallInFlight == BagCardinality(calls) <= 1

\* ---------------------------------------------------------------- liveness
\* The modal handler alone, on a host page with #interaction-status, with no
\* transport failure and a user who only submits or cancels.
InitLive == Init /\ client = "modal" /\ hasStatusEl

PollDeliverLive == \E s \in BagToSet(polls) : PollDeliverH(s)
CallReturnLive  == \E call \in BagToSet(calls) : CallReturnH(call)
UserActsLive    == SubmitClickH \/ CancelClickH

NextLive ==
    \/ AgentStep
    \/ StoreStep
    \/ PollFetch
    \/ PollDeliverLive
    \/ CallReturnLive
    \/ UserActsLive

\* The interval timer keeps polling, the network delivers every response,
\* the server answers every call, and the user acts on what is displayed.
SpecLive ==
    /\ InitLive
    /\ [][NextLive]_vars
    /\ WF_vars(PollFetch)
    /\ WF_vars(PollDeliverLive)
    /\ WF_vars(StoreStep)
    /\ WF_vars(CallReturnLive)
    /\ WF_vars(UserActsLive)

Terminal(r) ==
    r \in 1..Len(requests) /\ requests[r].status \in {"answered", "cancelled"}

\* C8: every request created in the store is eventually displayed by the
\* client and eventually reaches a terminal status.
C8_EveryRequestServed ==
    \A r \in 1..MaxReq :
        (r \in 1..Len(requests)) ~> (r \in shownEver /\ Terminal(r))

\* ------------------------------------------------------ claims on the store

\* C11: terminal statuses are absorbing in the store.  A resolve that finds
\* its request pending makes it answered with the value sent, a cancel makes
\* it cancelled, and both answer ok; a resolve or cancel that finds it not
\* pending answers NotFound and changes nothing; and no step of any caller,
\* in any interleaving, changes the record of a request that is answered or
\* cancelled.
C11_TerminalAbsorbing ==
    [][ /\ \A r \in 1..Len(requests) :
              Terminal(r) => requests'[r] = requests[r]
        /\ \A call \in BagToSet(calls) :
              StoreHandle(call) =>
                IF IsPending(call.id)
                THEN /\ requests'[call.id].status =
                          (IF call.cancelled THEN "cancelled" ELSE "answered")
                     /\ ~call.cancelled =>
                          requests'[call.id].value = call.value
                     /\ BagIn([call EXCEPT !.stage = "replied",
                                           !.result = "ok"], calls')
                ELSE /\ requests' = requests
                     /\ BagIn([call EXCEPT !.stage = "replied",
                                           !.result = "NotFound"], calls') ]_vars

\* C11 witness: a submit that arrived after another caller's resolve was
\* answered NotFound, and the store still holds the first value, which is
\* not the one the late submit carried.
C11_Witness ==
    \E call \in BagToSet(calls) :
        /\ call.result = "NotFound"
        /\ ~call.cancelled
        /\ requests[call.id].status = "answered"
        /\ requests[call.id].value # call.value

\* ------------------------------------------------- claims on the clients

\* C12: when a submit or cancel call of the client returns, its request is
\* not pending, the client's local entry for it is deleted and nothing is
\* displayed; a request the client retired is in no list_pending result
\* computed afterwards; and the client leaves Idle only by the delivery of a
\* poll response.
C12_SuccessReturnsToIdle ==
    [][ /\ \A call \in BagToSet(calls) :
              CallReturn(call) =>
                  /\ ~IsPending(call.id)'
                  /\ call.id \notin Known'
                  /\ Displaying' = {}
        /\ \A s \in BagToSet(polls') :
              polls' = polls (+) One(s) =>
                  \A k \in 1..Len(s) : s[k] \notin retired
        /\ (Displaying = {} /\ Displaying' # {}) =>
              \E s \in BagToSet(polls) : polls' = polls (-) One(s) ]_vars

\* C12 witness: the client has retired a request and is idle, with no entry
\* for it and no call in flight, while another request is pending and a
\* poll response computed after the success is in flight without it.
C12_Witness ==
    /\ retired # {}
    /\ retired \cap Known = {}
    /\ Displaying = {}
    /\ calls = EmptyBag
    /\ PendingIds # {}
    /\ \E s \in BagToSet(polls) :
          Len(s) > 0 /\ \A k \in 1..Len(s) : s[k] \notin retired

\* What the user has entered for a request of type t with options o: the
\* text of the input, the state of the checkbox, the value of the checked
\* radio (none checked: null).
Entered(t, o, f) ==
    CASE t = "text_input"   -> Str(f.text)
      [] t = "confirmation" -> Bool(f.checked)
      [] OTHER              -> IF f.selected = 0 THEN Null
                               ELSE Str(AttrValue(o[f.selected]))

\* C13: a submit for a displayed request carries the id of the request that
\* is displayed at the click and, for the kinds with an input, exactly what
\* the user entered; the value the store records when it accepts the call is
\* exactly the value the client extracted.
C13_RoundTrip ==
    [][ /\ \A call \in BagToSet(calls') :
              (SubmitClick /\ calls' = calls (+) One(call)
                 /\ Displaying # {}) =>
                  /\ call.id \in Displaying
                  /\ (client = "modal" /\ requests[call.id].type \in
                         {"text_input", "confirmation", "selection"}) =>
                        call.value = Entered(requests[call.id].type,
                                             requests[call.id].options, form)
        /\ \A call \in BagToSet(calls) :
              (StoreHandle(call) /\ ~call.cancelled /\ IsPending(call.id)) =>
                  /\ requests'[call.id].status = "answered"
                  /\ requests'[call.id].value = call.value ]_vars

\* C13 witness: the store has recorded, for the second request, a text with
\* blanks at both ends, a quote and a backslash, as this client submitted it.
C13_Witness ==
    /\ Len(requests) = 2
    /\ 2 \in retired
    /\ requests[2].status = "answered"
    /\ requests[2].value = Str(<<" ", Quote, Backslash, " ">>)

PollFail(s) == PollFailH(s) \/ PollFailP(s)
PollDeliver(s) == PollDeliverH(s) \/ PollDeliverP(s)

\* C14: a poll cycle that fails changes neither what is displayed, the
\* controls, the form, the local bookkeeping, the store nor the calls in
\* flight, and leaves the interval timer running, so later cycles poll and
\* display as before.
C14_PollFailureSurvives ==
    [][ \A s \in BagToSet(polls) :
          PollFail(s) =>
              /\ Displaying' = Displaying
              /\ Bound' = Bound
              /\ Known' = Known
              /\ form' = form
              /\ requests' = requests
              /\ calls' = calls
              /\ polls' = polls (-) One(s)
              /\ intervalsLive' = intervalsLive
              /\ intervalsLive' > 0 ]_vars

\* C14 witness: the standalone page shows its poll error status after it
\* retired request 1, and displays the pending request 2.
C14_Witness ==
    /\ client = "page"
    /\ status = "pollerror"
    /\ retired = {1}
    /\ currentRequest = 2
    /\ Displaying = {2}
    /\ IsPending(2)

\* C15: a request leaves the pending status only in the step in which the
\* store handles a submit or cancel call for that id (or another tab's user
\* resolves or cancels it); a call is put in flight only by a click on the
\* submit or cancel control, for the request the controls are bound to; no
\* step removes a request from the store.
C15_OnlyUserActionRetires ==
    [][ /\ \A r \in 1..Len(requests) :
              (IsPending(r) /\ ~IsPending(r)') =>
                  \/ \E call \in BagToSet(calls) :
                        call.id = r /\ StoreHandle(call)
                  \/ \E v \in OtherTabValues : ResolveElsewhere(r, v)
                  \/ CancelElsewhere(r)
        /\ Len(requests') >= Len(requests)
        /\ \A call \in BagToSet(calls') :
              (call.stage = "sent" /\ calls' = calls (+) One(call)) =>
                  /\ SubmitClick \/ CancelClick
                  /\ call.id = Bound ]_vars

\* C15 witness: the client has polled, displayed and dismissed a request and
\* run its timers down, with no call ever made: both requests are pending.
C15_Witness ==
    /\ Cardinality(shownEver) = 2
    /\ PendingIds = {1, 2}
    /\ Displaying = {}
    /\ calls = EmptyBag /\ polls = EmptyBag
    /\ status \in {"none", "pollerror"}

\* C17: every list_pending result holds exactly the ids that are pending
\* when it is computed, each once, in creation order.
C17_ListPendingExact ==
    [][ \A s \in BagToSet(polls') :
          polls' = polls (+) One(s) =>
              /\ {s[k] : k \in 1..Len(s)} = PendingIds
              /\ \A j, k \in 1..Len(s) : j < k => s[j] < s[k] ]_vars

\* C17 witness: a result computed after the first of two requests was
\* answered or cancelled is in flight, and lists the second alone.
C17_Witness ==
    /\ Len(requests) = 2
    /\ Terminal(1) /\ IsPending(2)
    /\ BagIn(<<2>>, polls)

\* C18: the delivery of a poll response surfaces at most one request.  With
\* no id of the response outside the local set (or, on the standalone page,
\* with a request on display) it changes nothing; otherwise it displays the
\* first id of the response that is not in the set, binds the controls to
\* it, adds it to the set, and adds no other id.
C18_OnePerPoll ==
    [][ \A s \in BagToSet(polls) :
          PollDeliver(s) =>
            LET new == {k \in 1..Len(s) : s[k] \notin Known}
            IN  IF new = {} \/ (client = "page" /\ currentRequest # NoRequest)
                THEN Known' = Known /\ Displaying' = Displaying
                       /\ Bound' = Bound
                ELSE \E k \in new :
                       /\ \A j \in new : k <= j
                       /\ Known' = Known \cup {s[k]}
                       /\ Displaying' = {s[k]}
                       /\ Bound' = s[k] ]_vars

\* C18 witness: with requests 1 and 2 pending and 1 in the local set, a poll
\* has skipped 1 and surfaced 2.
C18_Witness ==
    /\ client = "modal"
    /\ PendingIds = {1, 2}
    /\ pendingInteractions = {1, 2}
    /\ Displaying = {2}
    /\ retired = {}

\* C19: the return of a submit or cancel call for a request does not change
\* the display while the modal shows a different request that is pending.
C19_ReturnKeepsOtherDisplay ==
    [][ \A call \in BagToSet(calls) :
          ( /\ CallReturnH(call)
            /\ Displaying # {}
            /\ call.id \notin Displaying
            /\ \A r \in Displaying : IsPending(r) ) =>
              Displaying' = Displaying ]_vars

\* ------------------------------------------- claims on start and teardown

\* C16: the step in which beforeunload fires leaves the client without a
\* live interval timer, and once it has fired no poll cycle starts.
C16_NoPollingAfterTeardown ==
    [][ /\ tornDown' => intervalsLive' = 0
        /\ tornDown =>
              ~ \E s \in BagToSet(polls') : polls' = polls (+) One(s) ]_vars

\* C20: the handler creates at most one interval timer, whatever the number
\* and order of the init() calls, and an init() call on an initialized
\* handler changes nothing.
C20_InitIdempotent ==
    [][ /\ client = "modal" => intervalsCreated' <= 1
        /\ (initialized /\ (InitCall \/ ScriptLoaded)) =>
              UNCHANGED << initialized, checkInterval, modalElement,
                           intervalsCreated, intervalsLive, protocolVars >> ]_vars

\* C20 witness: init() has run more than MaxInitCalls times, through the
\* listener, the delayed call and the script callbacks: the handler is
\* initialized and has created one timer.
C20_Witness ==
    /\ client = "modal"
    /\ initCalls > MaxInitCalls
    /\ initialized
    /\ intervalsCreated = 1
    /\ scriptsLoading = 0
====
